---- MODULE Spec2Model ----
(***************************************************************************)
(* Model of AtlasPage (src/src/lib.rs): a bounded 3D allocator that packs  *)
(* boxes into a page of size dim and keeps two generations of entries,     *)
(* live_items and dead_items.                                              *)
(*                                                                         *)
(* UVec3 values are triples <<x, y, z>> of naturals.  Every size and       *)
(* dimension of the model is far below 2^32, so no u32 operation of the    *)
(* source wraps or traps here.                                             *)
(***************************************************************************)
EXTENDS Integers, Sequences, FiniteSets, TLC

\* ---------------------------------------------------------------- bounds
\* The page of the main specification is DimX x DimY x DimZ.
DimX == 3
DimY == 2
DimZ == 1
\* Number of distinct handles the callers use.
NumHandles == 3
\* The page of the degenerate-size specification is a cube of side DimD, used
\* by NumHandlesD handles.
DimD == 1
NumHandlesD == 2

Axes == 1..3
AxisX == 1
AxisY == 2
AxisZ == 3

ZERO == <<0, 0, 0>>
None == <<>>

Handles == 1..NumHandles
Dim == <<DimX, DimY, DimZ>>
\* Requested sizes: positive on every axis, up to one more than the page
Sizes == {s \in [Axes -> 1..(DimX + DimY + DimZ)] : \A i \in Axes : s[i] <= Dim[i] + 1}

\* Degenerate requests: sizes that may be zero on any axis
HandlesD == 1..NumHandlesD
SizesD == [Axes -> 0..(DimD + 1)]

VARIABLES
    dim,          \* AtlasPage::dim
    live_items,   \* AtlasPage::live_items : handle -> AtlasInfo
    dead_items,   \* AtlasPage::dead_items : handle -> AtlasInfo
    call,         \* the last call made on the page and what it returned
    pre           \* live_items and dead_items as they were when that call began

vars == <<dim, live_items, dead_items, call, pre>>

\* ------------------------------------------------------------ data types
AtlasInfo(size, position) == [size |-> size, position |-> position]

NoFit == [kind |-> "NoFit", pos |-> None]
New(p) == [kind |-> "New", pos |-> p]
Existing(p) == [kind |-> "Existing", pos |-> p]
\* assert_eq! failed: the call panics instead of returning a Slot
Panicked == [kind |-> "Panic", pos |-> None]
\* calls that return ()
Unit == [kind |-> "Unit", pos |-> None]

\* ------------------------------------------------------------- UVec3 ops
VAdd(a, b) == [i \in Axes |-> a[i] + b[i]]
\* item.position + item.size * UVec3::AXIS
Advance(item, axis) ==
    [i \in Axes |-> IF i = axis THEN item.position[i] + item.size[i] ELSE item.position[i]]

\* HashMap helpers
MapRemove(m, h) == [k \in (DOMAIN m) \ {h} |-> m[k]]
MapInsert(m, h, info) == [k \in (DOMAIN m) \cup {h} |-> IF k = h THEN info ELSE m[k]]
MapExtend(m, other) ==
    [k \in (DOMAIN m) \cup (DOMAIN other) |-> IF k \in DOMAIN other THEN other[k] ELSE m[k]]
EmptyMap == [k \in {} |-> None]

\* Every order in which a HashMap may enumerate the keys S
Orders(S) ==
    {s \in [1..Cardinality(S) -> S] : \A i, j \in 1..Cardinality(S) : i # j => s[i] # s[j]}

Min(S) == CHOOSE m \in S : \A n \in S : m <= n

\* ---------------------------------------------------------------- measure
\* new_lhs.cmplt(cur_rhs) & new_rhs.cmpgt(cur_lhs), one flag per axis
intersects(new_lhs, new_rhs, cur_lhs, cur_rhs) ==
    [i \in Axes |-> new_lhs[i] < cur_rhs[i] /\ new_rhs[i] > cur_lhs[i]]

all(b) == \A i \in Axes : b[i]

\* mutant: the bounds test forgets the position
exceeds_page_size_only(d, pos, size) == \E i \in Axes : size[i] > d[i]

\* mutant: the bounds test forgets the size
exceeds_page_pos_only(d, pos, size) == \E i \in Axes : pos[i] > d[i]

\* (pos + size).cmpgt(self.dim).any()
exceeds_page(d, pos, size) == \E i \in Axes : pos[i] + size[i] > d[i]

\* The live items that tighten the distance on the given axis: they intersect
\* the new box on the two other axes and start beyond its far face.
presses(item, new_lhs, new_rhs, axis) ==
    LET cur_lhs == item.position
        cur_rhs == VAdd(item.position, item.size)
        isect == intersects(new_lhs, new_rhs, cur_lhs, cur_rhs)
    IN  /\ \A i \in Axes \ {axis} : isect[i]
        /\ cur_lhs[axis] > new_rhs[axis]

\* distance after the loop over live_items: the loop keeps the smallest value
\* seen, starting from dim - pos - size
distance_to(d, live, pos, size, axis) ==
    LET new_rhs == VAdd(pos, size)
    IN  Min({d[axis] - pos[axis] - size[axis]} \cup
            {live[h].position[axis] - new_rhs[axis] :
                h \in {k \in DOMAIN live : presses(live[k], pos, new_rhs, axis)}})

\* mutant: a dead box that only touches the new box is pushed to to_clear too
to_clear_touching(dead, pos, size) ==
    {h \in DOMAIN dead :
        \A i \in Axes : /\ pos[i] <= dead[h].position[i] + dead[h].size[i]
                        /\ pos[i] + size[i] >= dead[h].position[i]}

\* the dead handles pushed to to_clear
to_clear_of(dead, pos, size) ==
    {h \in DOMAIN dead :
        all(intersects(pos, VAdd(pos, size),
                       dead[h].position, VAdd(dead[h].position, dead[h].size)))}

\* mutant: live items are never tested for intersection
hits_live_never(live, pos, size) == FALSE

\* live item whose box intersects the new box on all three axes
hits_live(live, pos, size) ==
    \E h \in DOMAIN live :
        all(intersects(pos, VAdd(pos, size),
                       live[h].position, VAdd(live[h].position, live[h].size)))

\* mutant: a dead item that intersects the new box rejects the candidate too
measure_dead_blocks(d, live, dead, pos, size) ==
    IF exceeds_page(d, pos, size) THEN None
    ELSE IF hits_live(live, pos, size) \/ hits_live(dead, pos, size) THEN None
    ELSE [distance |-> distance_to(d, live, pos, size, AxisX)
                       + distance_to(d, live, pos, size, AxisY)
                       + distance_to(d, live, pos, size, AxisZ),
          to_clear |-> to_clear_of(dead, pos, size)]

\* measure(pos, size) -> Option<(u32, Vec<H>)>; None is the empty tuple.
\* to_clear is kept as a set: only its length and its members are used.
measure(d, live, dead, pos, size) ==
    IF exceeds_page(d, pos, size) THEN None
    ELSE IF hits_live(live, pos, size) THEN None
    ELSE [distance |-> distance_to(d, live, pos, size, AxisX)
                       + distance_to(d, live, pos, size, AxisY)
                       + distance_to(d, live, pos, size, AxisZ),
          to_clear |-> to_clear_of(dead, pos, size)]

\* ----------------------------------------------------------------- insert
\* mutant: an item contributes only its corner along x
points_of_x_only(item) == <<Advance(item, AxisX)>>

\* the three points an item contributes, in the order they are pushed
points_of(item) == <<Advance(item, AxisX), Advance(item, AxisY), Advance(item, AxisZ)>>

RECURSIVE points_in_order(_, _, _)
points_in_order(m, ord, i) ==
    IF i > Len(ord) THEN <<>>
    ELSE points_of(m[ord[i]]) \o points_in_order(m, ord, i + 1)

\* mutant: the origin is not among the insert points
insert_points_no_origin(live, dead, live_ord, dead_ord) ==
    points_in_order(live, live_ord, 1) \o points_in_order(dead, dead_ord, 1)

\* insert_points, for one enumeration order of each map
insert_points(live, dead, live_ord, dead_ord) ==
    <<ZERO>> \o points_in_order(live, live_ord, 1) \o points_in_order(dead, dead_ord, 1)

\* best_point starts as None with best_evict_count = usize::MAX and
\* best_distance = u32::MAX, which every measured candidate beats on count.
NoBest == [point |-> None, distance |-> 0, evict_count |-> 0, evictions |-> {}]

\* mutant: the lower distance wins and the eviction count only breaks ties
is_better_cost_first(m, best) ==
    \/ best.point = None
    \/ m.distance < best.distance
    \/ m.distance = best.distance /\ Cardinality(m.to_clear) < best.evict_count

\* the test that replaces the best candidate
is_better(m, best) ==
    \/ best.point = None
    \/ Cardinality(m.to_clear) < best.evict_count
    \/ Cardinality(m.to_clear) = best.evict_count /\ m.distance < best.distance

RECURSIVE scan(_, _, _, _, _, _, _)
scan(d, live, dead, size, points, i, best) ==
    IF i > Len(points) THEN best
    ELSE LET m == measure(d, live, dead, points[i], size)
         IN  IF m # None /\ is_better(m, best)
             THEN scan(d, live, dead, size, points, i + 1,
                       [point |-> points[i], distance |-> m.distance,
                        evict_count |-> Cardinality(m.to_clear), evictions |-> m.to_clear])
             ELSE scan(d, live, dead, size, points, i + 1, best)

\* mutant: the evictions are never removed from dead_items
evict_none(dead, evictions) == dead

\* dead_items after `for item in evictions { self.dead_items.remove(&item) }`
evict(dead, evictions) == [k \in (DOMAIN dead) \ evictions |-> dead[k]]

\* the search and commit of insert, once the handle is known not to be live
\* and its dead entry (if any) has been taken out of dead
place(d, live, dead, handle, size, live_ord, dead_ord) ==
    LET best == scan(d, live, dead, size, insert_points(live, dead, live_ord, dead_ord), 1, NoBest)
    IN  IF best.point # None
        THEN [slot |-> New(best.point),
              live |-> MapInsert(live, handle, AtlasInfo(size, best.point)),
              dead |-> evict(dead, best.evictions)]
        ELSE [slot |-> NoFit, live |-> live, dead |-> dead]

\* mutant: the handle's dead entry is read but left in dead_items
take_dead_kept(dead, handle) == dead

\* dead_items.remove(&handle) at the head of the dead branch
take_dead(dead, handle) == MapRemove(dead, handle)

\* mutant: a live handle asked for with another size is given that size
found_live_resized(live, dead, handle, size) ==
    [slot |-> Existing(live[handle].position),
     live |-> MapInsert(live, handle, AtlasInfo(size, live[handle].position)),
     dead |-> dead]

\* mutant: Existing carries the stored size instead of the stored position
found_live_size(live, dead, handle, size) ==
    IF size = live[handle].size
    THEN [slot |-> Existing(live[handle].size), live |-> live, dead |-> dead]
    ELSE [slot |-> Panicked, live |-> live, dead |-> dead]

\* the handle is live: assert_eq!(size, info.size), then Existing
found_live(live, dead, handle, size) ==
    IF size = live[handle].size
    THEN [slot |-> Existing(live[handle].position), live |-> live, dead |-> dead]
    ELSE [slot |-> Panicked, live |-> live, dead |-> dead]

\* mutant: the revived entry is dropped instead of going back into live
revive_dropped(live, dead, handle) ==
    [slot |-> Existing(dead[handle].position),
     live |-> live,
     dead |-> MapRemove(dead, handle)]

\* back from the dead: the entry taken out of dead goes into live as it is
revive(live, dead, handle) ==
    [slot |-> Existing(dead[handle].position),
     live |-> MapInsert(live, handle, dead[handle]),
     dead |-> take_dead(dead, handle)]

\* insert(handle, size) for one enumeration order of each map
insert(d, live, dead, handle, size, live_ord, dead_ord) ==
    IF handle \in DOMAIN live
    THEN found_live(live, dead, handle, size)
    ELSE IF handle \in DOMAIN dead /\ size = dead[handle].size
    THEN revive(live, dead, handle)
    ELSE place(d, live, take_dead(dead, handle), handle, size, live_ord, dead_ord)

\* ------------------------------------------------------- other operations
get(live, handle) == IF handle \in DOMAIN live THEN live[handle] ELSE None

\* mutant: the entry is dropped instead of being kept in dead
remove_dropped(live, dead, handle) ==
    [live |-> MapRemove(live, handle), dead |-> dead]

\* mutant: the entry is copied into dead and stays in live
remove_copy(live, dead, handle) ==
    IF handle \in DOMAIN live
    THEN [live |-> live, dead |-> MapInsert(dead, handle, live[handle])]
    ELSE [live |-> live, dead |-> dead]

remove(live, dead, handle) ==
    IF handle \in DOMAIN live
    THEN [live |-> MapRemove(live, handle), dead |-> MapInsert(dead, handle, live[handle])]
    ELSE [live |-> live, dead |-> dead]

purge(live, dead, handle) ==
    [live |-> MapRemove(live, handle), dead |-> MapRemove(dead, handle)]

remove_all(live, dead) == [live |-> EmptyMap, dead |-> MapExtend(dead, live)]

purge_all(live, dead) == [live |-> EmptyMap, dead |-> EmptyMap]

\* ------------------------------------------------------------ the machine
Call(op, handle, size, slot) ==
    [op |-> op, handle |-> handle, size |-> size, slot |-> slot]

\* no call is in progress: the caller has taken the result of the last one
Idle == Call("-", 0, ZERO, Unit)
NoPre == [live |-> EmptyMap, dead |-> EmptyMap]

\* the page is ready for the next call
Running == call = Idle

\* AtlasPage::new(d)
new(d) ==
    /\ dim = d
    /\ live_items = EmptyMap
    /\ dead_items = EmptyMap
    /\ call = Idle
    /\ pre = NoPre

Init == new(Dim)

Snapshot == pre' = [live |-> live_items, dead |-> dead_items]

Insert(handle, size) ==
    /\ Running
    /\ \E live_ord \in Orders(DOMAIN live_items) :
       \E dead_ord \in Orders(DOMAIN take_dead(dead_items, handle)) :
         LET r == insert(dim, live_items, dead_items, handle, size, live_ord, dead_ord)
         IN  /\ live_items' = r.live
             /\ dead_items' = r.dead
             /\ call' = Call("insert", handle, size, r.slot)
    /\ Snapshot
    /\ UNCHANGED dim

Get(handle) ==
    /\ Running
    /\ call' = Call("get", handle, ZERO,
                    IF get(live_items, handle) = None THEN [kind |-> "None", pos |-> None]
                    ELSE [kind |-> "Some", pos |-> get(live_items, handle).position])
    /\ Snapshot
    /\ UNCHANGED <<dim, live_items, dead_items>>

Remove(handle) ==
    /\ Running
    /\ live_items' = remove(live_items, dead_items, handle).live
    /\ dead_items' = remove(live_items, dead_items, handle).dead
    /\ call' = Call("remove", handle, ZERO, Unit)
    /\ Snapshot
    /\ UNCHANGED dim

Purge(handle) ==
    /\ Running
    /\ live_items' = purge(live_items, dead_items, handle).live
    /\ dead_items' = purge(live_items, dead_items, handle).dead
    /\ call' = Call("purge", handle, ZERO, Unit)
    /\ Snapshot
    /\ UNCHANGED dim

RemoveAll ==
    /\ Running
    /\ live_items' = remove_all(live_items, dead_items).live
    /\ dead_items' = remove_all(live_items, dead_items).dead
    /\ call' = Call("remove_all", 0, ZERO, Unit)
    /\ Snapshot
    /\ UNCHANGED dim

PurgeAll ==
    /\ Running
    /\ live_items' = purge_all(live_items, dead_items).live
    /\ dead_items' = purge_all(live_items, dead_items).dead
    /\ call' = Call("purge_all", 0, ZERO, Unit)
    /\ Snapshot
    /\ UNCHANGED dim

\* The caller takes the returned value and goes on.  A panic unwinds out of the
\* caller instead: no further call is made on the page.
Return ==
    /\ call # Idle
    /\ call.slot.kind # "Panic"
    /\ call' = Idle
    /\ pre' = NoPre
    /\ UNCHANGED <<dim, live_items, dead_items>>

Next ==
    \/ \E handle \in Handles, size \in Sizes : Insert(handle, size)
    \/ \E handle \in Handles : Get(handle)
    \/ \E handle \in Handles : Remove(handle)
    \/ \E handle \in Handles : Purge(handle)
    \/ RemoveAll
    \/ PurgeAll
    \/ Return

Spec == Init /\ [][Next]_vars

\* The same page driven with sizes that may be zero on any axis
InitD == new(<<DimD, DimD, DimD>>)

NextD ==
    \/ \E handle \in HandlesD, size \in SizesD : Insert(handle, size)
    \/ \E handle \in HandlesD : Get(handle)
    \/ \E handle \in HandlesD : Remove(handle)
    \/ \E handle \in HandlesD : Purge(handle)
    \/ RemoveAll
    \/ PurgeAll
    \/ Return

SpecD == InitD /\ [][NextD]_vars


\* ================================================================ claims
\* The box of an entry is [position, position + size) on every axis; two
\* boxes overlap when some point lies in both on each of the three axes.
InBox(e, i, c) == e.position[i] <= c /\ c < e.position[i] + e.size[i]
BoxesOverlap(e1, e2) ==
    \A i \in Axes : \E c \in 0..(e1.position[i] + e1.size[i]) : InBox(e1, i, c) /\ InBox(e2, i, c)

\* what the last call found for its handle when it began
WasLive == call.handle \in DOMAIN pre.live
WasDead == call.handle \notin DOMAIN pre.live /\ call.handle \in DOMAIN pre.dead
Unchanged == live_items = pre.live /\ dead_items = pre.dead
Inserted == call.op = "insert"

\* C1: no two distinct live handles have boxes that intersect on all three
\* axes, in every reachable state, also right after a revival.
Thm_C1_NoLiveOverlap ==
    \A h1, h2 \in DOMAIN live_items :
        h1 # h2 => ~BoxesOverlap(live_items[h1], live_items[h2])

\* a dead entry was revived next to two other live entries
Wit_C1_Revived ==
    /\ Inserted /\ WasDead
    /\ call.slot.kind = "Existing"
    /\ Cardinality(DOMAIN live_items) = 3

\* C2: whenever insert returns NoFit, live and dead are what they were before
\* the call, also for a handle that was dead with another size.
Claim_C2_NoFitMutatesNothing ==
    (Inserted /\ call.slot = NoFit) => Unchanged

InPage(e) == \A i \in Axes : e.position[i] + e.size[i] <= dim[i]

\* C3: every entry of live or dead has position + size <= dim on each axis.
Thm_C3_Bounds ==
    /\ \A h \in DOMAIN live_items : InPage(live_items[h])
    /\ \A h \in DOMAIN dead_items : InPage(dead_items[h])

\* a new entry was placed away from the origin while a dead entry is kept
Wit_C3_PlacedAway ==
    /\ Inserted
    /\ call.slot.kind = "New" /\ call.slot.pos # ZERO
    /\ dead_items # EmptyMap

\* C4: no handle is a key of both live and dead.
Thm_C4_DisjointGenerations ==
    (DOMAIN live_items) \cap (DOMAIN dead_items) = {}

\* a live handle was removed while another entry is live
Wit_C4_Removed ==
    /\ call.op = "remove" /\ WasLive
    /\ call.handle \in DOMAIN dead_items
    /\ live_items # EmptyMap

\* C5: insert on a handle that is live with the same size returns Existing
\* with the stored position and changes neither map.
Thm_C5_LiveSameSize ==
    (Inserted /\ WasLive /\ pre.live[call.handle].size = call.size)
        => /\ call.slot = Existing(pre.live[call.handle].position)
           /\ Unchanged

Wit_C5_LiveSameSize ==
    /\ Inserted /\ WasLive
    /\ pre.live[call.handle].size = call.size
    /\ call.slot.kind = "Existing" /\ call.slot.pos # ZERO

\* the last call committed a placement whose box overlaps the dead entry of h
Evicting(h) ==
    /\ Inserted /\ call.slot.kind = "New"
    /\ BoxesOverlap(AtlasInfo(call.size, call.slot.pos), pre.dead[h])
\* the last call purged h, inserted h or evicted it
Releasing(h) ==
    \/ call.op = "purge_all"
    \/ call.op \in {"purge", "insert"} /\ call.handle = h
    \/ Evicting(h)

Claim_C7_MismatchIsError ==
    (Inserted /\ WasLive /\ pre.live[call.handle].size # call.size)
        => /\ call.slot.kind \notin {"Panic", "Existing", "New", "NoFit"}
           /\ Unchanged

\* C8: insert with a size that is zero on some axis never returns New or
\* Existing and never adds an entry to live.
Claim_C8_ZeroSizeRejected ==
    (Inserted /\ \E i \in Axes : call.size[i] = 0)
        => /\ call.slot.kind \notin {"New", "Existing"}
           /\ (DOMAIN live_items) \subseteq (DOMAIN pre.live)

Thm_C10_EmptyPageOrigin ==
    (Inserted /\ pre.live = EmptyMap /\ pre.dead = EmptyMap
              /\ \A i \in Axes : call.size[i] <= dim[i])
        => /\ call.slot = New(ZERO)
           /\ call.handle \in DOMAIN live_items
           /\ live_items[call.handle] = AtlasInfo(call.size, ZERO)

Wit_C10_EmptyPage ==
    /\ Inserted /\ pre.live = EmptyMap /\ pre.dead = EmptyMap
    /\ call.slot = New(ZERO)
    /\ call.size = Dim


\* C11: remove on a live handle moves exactly that handle's entry, unchanged,
\* from live to dead and changes no other entry; remove on a handle that is
\* dead or unknown changes neither map.
Thm_C11_RemoveMoves ==
    (call.op = "remove") =>
        IF WasLive
        THEN /\ DOMAIN live_items = (DOMAIN pre.live) \ {call.handle}
             /\ \A k \in DOMAIN live_items : live_items[k] = pre.live[k]
             /\ DOMAIN dead_items = (DOMAIN pre.dead) \cup {call.handle}
             /\ dead_items[call.handle] = pre.live[call.handle]
             /\ \A k \in DOMAIN pre.dead : dead_items[k] = pre.dead[k]
        ELSE Unchanged

\* a live handle away from the origin was removed while one entry stays live
\* and another is already dead
Wit_C11_Removed ==
    /\ call.op = "remove" /\ WasLive
    /\ pre.live[call.handle].position # ZERO
    /\ live_items # EmptyMap
    /\ pre.dead # EmptyMap


\* dead_items as the placement search of the last insert saw it: the handle's
\* own dead entry has been taken out
SearchDead == MapRemove(pre.dead, call.handle)
\* position + size along one axis
Corner(e, a) == [i \in Axes |-> IF i = a THEN e.position[i] + e.size[i] ELSE e.position[i]]
\* the origin and the corners of every entry the search saw
CandidatePoints ==
    {ZERO} \cup {Corner(pre.live[k], a) : k \in DOMAIN pre.live, a \in Axes}
           \cup {Corner(SearchDead[k], a) : k \in DOMAIN SearchDead, a \in Axes}
\* the requested box at p
NewBox(p) == AtlasInfo(call.size, p)
\* the requested box at p lies in the page and overlaps no live entry
Feasible(p) ==
    /\ InPage(NewBox(p))
    /\ \A k \in DOMAIN pre.live : ~BoxesOverlap(NewBox(p), pre.live[k])
\* the dead entries the requested box at p overlaps
Casualties(p) == {k \in DOMAIN SearchDead : BoxesOverlap(NewBox(p), SearchDead[k])}
CostOf(p) == measure(dim, pre.live, SearchDead, p, call.size).distance
NoWorse(p, q) ==
    \/ Cardinality(Casualties(p)) < Cardinality(Casualties(q))
    \/ Cardinality(Casualties(p)) = Cardinality(Casualties(q)) /\ CostOf(p) <= CostOf(q)
Placed == Inserted /\ call.slot.kind = "New"

\* C12: when insert returns New(p), p is a feasible candidate point that
\* minimises (number of dead entries overlapped, cost) lexicographically over
\* all feasible candidate points; no dead entry is evicted when some feasible
\* candidate overlaps none.
Thm_C12_LexicographicBest ==
    Placed =>
        /\ call.slot.pos \in CandidatePoints
        /\ Feasible(call.slot.pos)
        /\ \A q \in CandidatePoints : Feasible(q) => NoWorse(call.slot.pos, q)
        /\ (\E q \in CandidatePoints : Feasible(q) /\ Casualties(q) = {})
              => dead_items = SearchDead

\* a placement that evicts nothing was chosen over a feasible candidate with
\* a lower cost that would have evicted a dead entry
Wit_C12_KeptDead ==
    /\ Placed
    /\ Casualties(call.slot.pos) = {}
    /\ \E q \in CandidatePoints :
          /\ Feasible(q) /\ Casualties(q) # {}
          /\ CostOf(q) < CostOf(call.slot.pos)

\* C13: when insert returns New(p), the dead handles removed are exactly those
\* whose boxes intersect the new box on all three axes, plus the handle's own
\* stale dead entry; every other dead entry is unchanged and live changes only
\* by the addition of the handle.
Thm_C13_EvictsExactlyOverlapped ==
    Placed =>
        /\ DOMAIN dead_items =
              (DOMAIN pre.dead) \ ({call.handle} \cup
                  {k \in DOMAIN pre.dead : BoxesOverlap(NewBox(call.slot.pos), pre.dead[k])})
        /\ \A k \in DOMAIN dead_items : dead_items[k] = pre.dead[k]
        /\ DOMAIN live_items = (DOMAIN pre.live) \cup {call.handle}
        /\ live_items[call.handle] = NewBox(call.slot.pos)
        /\ \A k \in DOMAIN pre.live : live_items[k] = pre.live[k]

\* a placement evicted one dead entry and kept another that touches the new box
Wit_C13_EvictedOneKeptOne ==
    /\ Placed
    /\ \E k \in DOMAIN pre.dead : k # call.handle /\ k \notin DOMAIN dead_items
    /\ \E k \in DOMAIN dead_items :
          \E a \in Axes : Corner(dead_items[k], a)[a] = call.slot.pos[a]

\* C14: across any insert call, every handle that was live before is still
\* live afterwards with the same size and position.
Thm_C14_InsertKeepsLive ==
    Inserted =>
        \A k \in DOMAIN pre.live : k \in DOMAIN live_items /\ live_items[k] = pre.live[k]

\* an insert placed a new entry on a page with two live entries
Wit_C14_PlacedBesideLive ==
    /\ Placed
    /\ Cardinality(DOMAIN pre.live) = 2


\* every result insert(handle, size) can give on the maps live and dead, over
\* the orders in which the two maps may be enumerated
Outcomes(live, dead, handle, size) ==
    {insert(dim, live, dead, handle, size, lo, do) :
        lo \in Orders(DOMAIN live), do \in Orders(DOMAIN take_dead(dead, handle))}
\* the handles that are neither live nor dead
FreshHandles == Handles \ ((DOMAIN live_items) \cup (DOMAIN dead_items))
\* the last call removed a live handle
Removed == call.op = "remove" /\ WasLive
\* the origin and the corners of every entry now stored
PointsNow ==
    {ZERO} \cup {Corner(live_items[k], a) : k \in DOMAIN live_items, a \in Axes}
           \cup {Corner(dead_items[k], a) : k \in DOMAIN dead_items, a \in Axes}

\* C15 as stated: after remove(h) of a live h with size s, an immediately
\* following insert(h2, s) for a handle h2 that is neither live nor dead does
\* not return NoFit.
Claim_C15_VacatedSpaceReused ==
    Removed =>
        \A h2 \in FreshHandles :
            \A o \in Outcomes(live_items, dead_items, h2, pre.live[call.handle].size) :
                o.slot # NoFit

\* C15 as amended: the same, provided the position of h is the origin or
\* position + size along one axis of some live or dead entry.
Thm_C15_VacatedCandidateReused ==
    (Removed /\ pre.live[call.handle].position \in PointsNow) =>
        \A h2 \in FreshHandles :
            \A o \in Outcomes(live_items, dead_items, h2, pre.live[call.handle].size) :
                o.slot # NoFit

\* a handle placed at the corner of another entry was removed while the origin
\* is taken by a live entry and a handle is free
Wit_C15_RemovedAtCorner ==
    /\ Removed
    /\ pre.live[call.handle].position \in PointsNow \ {ZERO}
    /\ \E k \in DOMAIN live_items : live_items[k].position = ZERO
    /\ FreshHandles # {}

\* every position of the page grid
Positions == [Axes -> 0..(DimX + DimY + DimZ)]

\* C16 as stated: insert for a handle that is not live returns NoFit only
\* when no position p has the box [p, p + size) inside the page and disjoint
\* from every live entry.
Claim_C16_NoFitOnlyIfNoPlacement ==
    (Inserted /\ ~WasLive /\ call.slot = NoFit) =>
        \A p \in Positions : ~Feasible(p)

\* C16 as amended: insert for a handle that is not live returns NoFit only
\* when no candidate point (the origin, or position + size along one axis of
\* a live entry or of a dead entry other than the handle's own) has its box
\* inside the page and disjoint from every live entry.
Thm_C16_NoFitOnlyIfNoCandidate ==
    (Inserted /\ ~WasLive /\ call.slot = NoFit) =>
        \A q \in CandidatePoints : ~Feasible(q)

\* NoFit for a size that fits the page while some position is free
Wit_C16_NoFitWithFreeSpace ==
    /\ Inserted /\ ~WasLive /\ call.slot = NoFit
    /\ \A i \in Axes : call.size[i] <= dim[i]
    /\ \E p \in Positions : Feasible(p)

\* C17: insert gives the same Slot and the same final maps on equal maps,
\* whatever order the entries are enumerated in.
Claim_C17_OrderIndependent ==
    (call = Idle) =>
        \A h \in Handles, size \in Sizes :
            Cardinality(Outcomes(live_items, dead_items, h, size)) = 1


\* the last insert found its handle dead with another size
Stale == Inserted /\ WasDead /\ pre.dead[call.handle].size # call.size
\* the maps after purge(handle) on the maps the last call began with
Purged == purge(pre.live, pre.dead, call.handle)

\* C18: insert on a handle that is dead with another size behaves like
\* purge of the handle followed by insert on an unknown handle: it never
\* returns Existing, and the possible Slots and final maps are the same, so
\* the stale dead entry gives no candidate point and is no casualty.
Thm_C18_StaleLikePurged ==
    Stale =>
        /\ call.slot.kind # "Existing"
        /\ call.handle \notin DOMAIN Purged.live
        /\ call.handle \notin DOMAIN Purged.dead
        /\ Outcomes(pre.live, pre.dead, call.handle, call.size)
             = Outcomes(Purged.live, Purged.dead, call.handle, call.size)
        /\ [slot |-> call.slot, live |-> live_items, dead |-> dead_items]
             \in Outcomes(Purged.live, Purged.dead, call.handle, call.size)

\* a handle that was dead with another size was placed over its own old box
\* while another dead entry is kept
Wit_C18_PlacedOverStale ==
    /\ Stale /\ Placed
    /\ BoxesOverlap(NewBox(call.slot.pos), pre.dead[call.handle])
    /\ dead_items # EmptyMap

\* the two axes other than a
Others(a) == Axes \ {a}
\* the far face of the box of size at pos on axis a
FarFace(pos, size, a) == pos[a] + size[a]
\* live entries that obstruct the box of size at pos along axis a: they overlap
\* it on the two other axes and their near face is at or beyond its far face
Obstructions(pos, size, a) ==
    {k \in DOMAIN live_items :
        /\ \A i \in Others(a) :
              \E c \in 0..(pos[i] + size[i]) :
                  InBox(AtlasInfo(size, pos), i, c) /\ InBox(live_items[k], i, c)
        /\ live_items[k].position[a] >= FarFace(pos, size, a)}
\* distance from the far face to the nearest obstruction or the page edge
NearestAhead(pos, size, a) ==
    Min({dim[a] - FarFace(pos, size, a)} \cup
        {live_items[k].position[a] - FarFace(pos, size, a) : k \in Obstructions(pos, size, a)})

\* C19: for every feasible candidate, the cost returned by measure is the sum
\* over the three axes of the distance from the far face to the nearest
\* obstruction or the page edge, a live neighbour touching the far face
\* giving distance 0.
Claim_C19_CostIsNearestObstruction ==
    (call = Idle) =>
        \A size \in Sizes, p \in PointsNow :
            measure(dim, live_items, dead_items, p, size) # None =>
                measure(dim, live_items, dead_items, p, size).distance
                    = NearestAhead(p, size, AxisX) + NearestAhead(p, size, AxisY)
                      + NearestAhead(p, size, AxisZ)

\* C20: no two stored entries overlap, whichever generation they are in: no
\* dead entry's box intersects on all three axes the box of a live entry or
\* of another dead entry.
Thm_C20_NoOverlapAcrossGenerations ==
    /\ \A k \in DOMAIN dead_items :
          /\ \A j \in DOMAIN live_items :
                ~BoxesOverlap(dead_items[k], live_items[j])
          /\ \A j \in (DOMAIN dead_items) \ {k} :
                ~BoxesOverlap(dead_items[k], dead_items[j])
    /\ \A k, j \in DOMAIN live_items :
          k # j => ~BoxesOverlap(live_items[k], live_items[j])

\* a dead entry was revived beside a live entry while another stays dead
Wit_C20_RevivedAmongBoth ==
    /\ Inserted /\ WasDead /\ call.slot.kind = "Existing"
    /\ Cardinality(DOMAIN live_items) = 2
    /\ dead_items # EmptyMap

====
